---- MODULE Spec2Model ----
(***************************************************************************)
(* Model of the Google Scholar alert pipeline:                             *)
(*   google_scholar/fetch_emails.py  (parse_scholar_email, fetch_emails)   *)
(*   google_scholar/scholar_api.py   (enhance_paper_with_scholar,          *)
(*                                    enhance_papers_batch)                *)
(*                                                                         *)
(* A text is a sequence of one-character strings, so that len(), slicing,  *)
(* split(), strip() and the `in` substring test are computed as Python     *)
(* computes them.  A parsed document is the sequence of the child nodes of *)
(* one container, in document order; a node is a record                    *)
(*   [name, text, a]                                                       *)
(* with name the tag name ("None" for a bare text node, as in              *)
(* BeautifulSoup), text the node's get_text() (str(node) for a text node)  *)
(* and a the result of node.find('a'): [has, text, href].                  *)
(***************************************************************************)
EXTENDS Integers, Sequences, FiniteSets, TLC

VARIABLES
    \* ---- parse_scholar_email ------------------------------------------
    pc,              \* position of the running function
    html,            \* the parsed document (soup)
    category,        \* fetch_emails.py:42
    found_category,  \* fetch_emails.py:46
    hidx,            \* index of the h3 the outer loop is at (0: before the first)
    curr,            \* index of the sibling the walk is at (0: None)
    title,           \* fetch_emails.py:73
    url,             \* fetch_emails.py:74
    authors_text,    \* fetch_emails.py:90
    abstract_text,   \* fetch_emails.py:91
    papers,          \* fetch_emails.py:37
    \* ---- enhance_papers_batch ------------------------------------------
    api_key,         \* whether SERP_API_KEY is set, scholar_api.py:21
    batch,           \* the `papers` argument, as it was at the call
    enhanced_papers, \* scholar_api.py:99
    resps,           \* the lookup result each record has met so far
    \* ---- fetch_emails --------------------------------------------------
    env,             \* credentials and SCHOLAR_API_AVAILABLE
    inbox,           \* the messages the search returns, in msg_ids order
    num,             \* index of the message the loop is at
    all_papers,      \* fetch_emails.py:220
    sink,            \* the file at save_path
    sink0,           \* the file at save_path when fetch_emails was called
    result           \* how the call ended (its last printed line)

parseVars == <<html, category, found_category, hidx, curr, title, url,
               authors_text, abstract_text, papers>>
enhVars == <<api_key, batch, enhanced_papers, resps>>
fetchVars == <<env, inbox, num, all_papers, sink, sink0, result>>

vars == <<pc, parseVars, enhVars, fetchVars>>

-----------------------------------------------------------------------------
(* Bounds of the model.                                                    *)
MaxSiblings == 3
MaxParas == 3
MaxIdNodes == 4

-----------------------------------------------------------------------------
(* Text primitives.                                                        *)

\* The characters Python's \s and str.strip() treat as whitespace.
Whitespace == {" ", "\n"}

RECURSIVE lstrip(_)
lstrip(t) ==
    IF t = <<>> THEN <<>>
    ELSE IF Head(t) \in Whitespace THEN lstrip(Tail(t)) ELSE t

RECURSIVE rstrip(_)
rstrip(t) ==
    IF t = <<>> THEN <<>>
    ELSE IF t[Len(t)] \in Whitespace THEN rstrip(SubSeq(t, 1, Len(t) - 1)) ELSE t

\* str.strip()
strip(t) == rstrip(lstrip(t))

\* re.sub(r'\s+', ' ', text): every maximal run of whitespace becomes one space.
RECURSIVE collapse(_)
collapse(t) ==
    IF t = <<>> THEN <<>>
    ELSE IF Head(t) \in Whitespace THEN <<" ">> \o collapse(lstrip(Tail(t)))
    ELSE <<Head(t)>> \o collapse(Tail(t))

clean_text(text) ==
    IF text = <<>> THEN <<>> ELSE strip(collapse(text))

\* Python's `sub in s`.
Contains(s, sub) ==
    \E i \in 0..(Len(s) - Len(sub)) : SubSeq(s, i + 1, i + Len(sub)) = sub

\* s.split(sep) for a one-character separator: the list of segments.
RECURSIVE split(_, _)
split(s, sep) ==
    IF \A i \in 1..Len(s) : s[i] # sep THEN <<s>>
    ELSE LET k == CHOOSE i \in 1..Len(s) :
                      s[i] = sep /\ \A j \in 1..(i - 1) : s[j] # sep
         IN  <<SubSeq(s, 1, k - 1)>> \o split(SubSeq(s, k + 1, Len(s)), sep)

\* sep.join(list)
RECURSIVE join(_, _)
join(list, sep) ==
    IF list = <<>> THEN <<>>
    ELSE IF Len(list) = 1 THEN list[1]
    ELSE list[1] \o sep \o join(Tail(list), sep)

\* [a.strip() for a in list if a.strip()]
RECURSIVE strip_nonempty(_)
strip_nonempty(list) ==
    IF list = <<>> THEN <<>>
    ELSE LET a == strip(Head(list))
         IN  (IF a # <<>> THEN <<a>> ELSE <<>>) \o strip_nonempty(Tail(list))

\* A text of n copies of the character c.
Rep(c, n) == [i \in 1..n |-> c]

-----------------------------------------------------------------------------
(* Literals of the program.                                                *)

DefaultCategory ==
    <<"G","o","o","g","l","e"," ","S","c","h","o","l","a","r">>

\* "Google 学术搜索发送此邮件，是因为您关注了", written with two characters of
\* the model's alphabet; only containment of the phrase is ever tested.
target_text == <<"%","M">>

AbstractNotAvailable ==
    <<"A","b","s","t","r","a","c","t"," ","n","o","t"," ",
      "a","v","a","i","l","a","b","l","e",".">>

TitleLabel == <<"T","i","t","l","e",":"," ">>
AuthorsLabel == <<"\n","A","u","t","h","o","r","s",":"," ">>
AbstractLabel == <<"\n","A","b","s","t","r","a","c","t",":"," ">>
CommaSpace == <<","," ">>

CommentTag ==
    <<"F","r","o","m"," ","G","o","o","g","l","e"," ",
      "S","c","h","o","l","a","r"," ","A","l","e","r","t">>
SourceTag == DefaultCategory
IdPrefix == <<"s","c","h","o","l","a","r","_">>

\* len(txt) > 20, fetch_emails.py:102
MinAbstractLen == 20
\* len(summary_content) < 50, fetch_emails.py:133
SummaryThreshold == 50

-----------------------------------------------------------------------------
(* Pure parts of parse_scholar_email.                                      *)

\* hashlib.md5(text).hexdigest(): the digest is kept symbolic, as an
\* injective image of the text it is computed over.
get_md5(text) == <<"md5(">> \o text \o <<")">>

\* The identity string of a record computed with the title alone.
PaperIdTitleOnly(t, author_list) == IdPrefix \o get_md5(t)

\* f"scholar_{get_md5(title + ''.join(author_list))}"
PaperId(t, author_list) == IdPrefix \o get_md5(t \o join(author_list, <<>>))

\* authors_text -> author_list, fetch_emails.py:118-122
AuthorList(atext) ==
    LET authors_clean == IF Contains(atext, <<"-">>)
                         THEN strip(split(atext, "-")[1])
                         ELSE atext
    IN  strip_nonempty(split(authors_clean, ","))

\* The summary with the padding test written `<=`.
FinalSummaryLE(t, author_list, atext) ==
    LET summary_content == IF atext # <<>> THEN atext ELSE AbstractNotAvailable
    IN  IF Len(summary_content) <= SummaryThreshold
        THEN TitleLabel \o t \o AuthorsLabel \o join(author_list, CommaSpace)
                 \o AbstractLabel \o summary_content
        ELSE summary_content

\* fetch_emails.py:129-136
FinalSummary(t, author_list, atext) ==
    LET summary_content == IF atext # <<>> THEN atext ELSE AbstractNotAvailable
    IN  IF Len(summary_content) < SummaryThreshold
        THEN TitleLabel \o t \o AuthorsLabel \o join(author_list, CommaSpace)
                 \o AbstractLabel \o summary_content
        ELSE summary_content

\* The record appended at fetch_emails.py:138-148.
MakePaper(t, u, atext, abstext, cat) ==
    LET author_list == AuthorList(atext)
    IN  [id         |-> PaperId(t, author_list),
         title      |-> t,
         authors    |-> author_list,
         summary    |-> FinalSummary(t, author_list, abstext),
         categories |-> <<cat>>,
         pdf        |-> u,
         abs        |-> u,
         comment    |-> CommentTag,
         source     |-> SourceTag]

\* cat_text of a footer link, fetch_emails.py:55-58
LinkCategory(atext) ==
    LET cat_text == clean_text(atext)
    IN  IF cat_text # <<>> /\ cat_text[1] = "[" /\ cat_text[Len(cat_text)] = "]"
        THEN strip(SubSeq(cat_text, 2, Len(cat_text) - 1))
        ELSE cat_text

\* The paragraph scan stopping at the first paragraph that holds the marker.
RECURSIVE ScanParagraphsFirstWins(_, _)
ScanParagraphsFirstWins(doc, i) ==
    IF i > Len(doc)
    THEN [category |-> DefaultCategory, found_category |-> FALSE]
    ELSE IF doc[i].name = "p" /\ Contains(doc[i].text, target_text)
    THEN IF doc[i].a.has /\ LinkCategory(doc[i].a.text) # <<>>
         THEN [category |-> LinkCategory(doc[i].a.text), found_category |-> TRUE]
         ELSE [category |-> DefaultCategory, found_category |-> FALSE]
    ELSE ScanParagraphsFirstWins(doc, i + 1)

\* for p in soup.find_all('p'), fetch_emails.py:49-63, from node i on: the
\* break is taken only where cat_text is non-empty.
RECURSIVE ScanParagraphs(_, _)
ScanParagraphs(doc, i) ==
    IF i > Len(doc)
    THEN [category |-> DefaultCategory, found_category |-> FALSE]
    ELSE IF /\ doc[i].name = "p"
            /\ Contains(doc[i].text, target_text)
            /\ doc[i].a.has
            /\ LinkCategory(doc[i].a.text) # <<>>
    THEN [category |-> LinkCategory(doc[i].a.text), found_category |-> TRUE]
    ELSE ScanParagraphs(doc, i + 1)

\* node.next_sibling as an index (0: None)
next_sibling(doc, i) == IF i < Len(doc) THEN i + 1 ELSE 0

\* The next h3 of soup.find_all('h3') after index i (0: none left)
NextH3(doc, i) ==
    IF \E j \in (i + 1)..Len(doc) : doc[j].name = "h3"
    THEN CHOOSE j \in (i + 1)..Len(doc) :
             doc[j].name = "h3" /\ \A k \in (i + 1)..(j - 1) : doc[k].name # "h3"
    ELSE 0

\* The abstract test with the bound included.
IsAbstractGE(txt) == txt # <<>> /\ Len(txt) >= MinAbstractLen

\* `txt and len(txt) > 20`, fetch_emails.py:102
IsAbstract(txt) == txt # <<>> /\ Len(txt) > MinAbstractLen

\* The boundary test without the separator.
IsBoundaryH3Only(name) == name = "h3"

\* `curr.name in ['h3', 'hr']`, fetch_emails.py:111
IsBoundary(name) == name \in {"h3", "hr"}

\* One iteration of the sibling loop, fetch_emails.py:96-112, on node n with
\* the walk's locals w; stop is the break.
SiblingStep(w, n) ==
    IF n.name = "div"
    THEN LET txt == clean_text(n.text)
         IN  IF w.authors_text = <<>>
             THEN [w EXCEPT !.authors_text = txt]
             ELSE IF IsAbstract(txt)
             THEN [w EXCEPT !.abstract_text = txt, !.stop = TRUE]
             ELSE w
    ELSE IF n.name = "None"
    THEN LET txt == clean_text(n.text)
         IN  IF txt # <<>> /\ w.authors_text = <<>>
             THEN [w EXCEPT !.authors_text = txt]
             ELSE w
    ELSE IF IsBoundary(n.name)
    THEN [w EXCEPT !.stop = TRUE]
    ELSE w

\* The whole sibling loop from node i on.
RECURSIVE Walk(_, _, _)
Walk(doc, i, w) ==
    IF i = 0 THEN w
    ELSE LET w2 == SiblingStep(w, doc[i])
         IN  IF w2.stop THEN w2 ELSE Walk(doc, next_sibling(doc, i), w2)

EmptyWalk == [authors_text |-> <<>>, abstract_text |-> <<>>, stop |-> FALSE]

\* The heading loop leaving at the first h3 without a link.
RECURSIVE ExtractRecordsBreak(_, _, _)
ExtractRecordsBreak(doc, h, cat) ==
    LET n == NextH3(doc, h)
    IN  IF n = 0 THEN <<>>
        ELSE IF ~doc[n].a.has THEN <<>>
        ELSE LET w == Walk(doc, next_sibling(doc, n), EmptyWalk)
             IN  <<MakePaper(clean_text(doc[n].a.text), doc[n].a.href,
                             w.authors_text, w.abstract_text, cat)>>
                 \o ExtractRecordsBreak(doc, n, cat)

\* for h3 in soup.find_all('h3'), fetch_emails.py:68-148, after heading h
RECURSIVE ExtractRecords(_, _, _)
ExtractRecords(doc, h, cat) ==
    LET n == NextH3(doc, h)
    IN  IF n = 0 THEN <<>>
        ELSE IF ~doc[n].a.has THEN ExtractRecords(doc, n, cat)
        ELSE LET w == Walk(doc, next_sibling(doc, n), EmptyWalk)
             IN  <<MakePaper(clean_text(doc[n].a.text), doc[n].a.href,
                             w.authors_text, w.abstract_text, cat)>>
                 \o ExtractRecords(doc, n, cat)

\* parse_scholar_email(html_content) as a function of the parsed document
parse_scholar_email(doc) ==
    ExtractRecords(doc, 0, ScanParagraphs(doc, 1).category)

-----------------------------------------------------------------------------
(* Documents the parser is run on.                                         *)

NoLink == [has |-> FALSE, text |-> <<>>, href |-> ""]
Link(t, h) == [has |-> TRUE, text |-> t, href |-> h]

Div(t) == [name |-> "div", text |-> t, a |-> NoLink]
TextNode(t) == [name |-> "None", text |-> t, a |-> NoLink]
Hr == [name |-> "hr", text |-> <<>>, a |-> NoLink]
Span(t) == [name |-> "span", text |-> t, a |-> NoLink]
H3(t, h) == [name |-> "h3", text |-> t, a |-> Link(t, h)]
H3NoLink(t) == [name |-> "h3", text |-> t, a |-> NoLink]
P(t, a) == [name |-> "p", text |-> t, a |-> a]

AuthorsLine == <<"A",","," ","B"," ","-"," ","J">>

WalkPool ==
    { Div(AuthorsLine), Div(<<" ">>),
      Div(Rep("x", MinAbstractLen)), Div(Rep("x", MinAbstractLen + 1)),
      Div(Rep("y", SummaryThreshold - 1)), Div(Rep("y", SummaryThreshold)),
      TextNode(<<"C">>), TextNode(<<"\n"," ">>),
      Hr, H3(<<"U">>, "u2"), H3NoLink(<<"V">>), Span(<<"s">>) }

CatPool ==
    { P(target_text \o <<" ","x">>, NoLink),
      P(target_text \o <<" ","[","c"," ","d","]">>, Link(<<"[","c"," ","d","]">>, "s1")),
      P(target_text \o <<" ","[","]">>, Link(<<"[","]">>, "s2")),
      P(target_text \o <<" ","e">>, Link(<<"e">>, "s3")),
      P(<<"%"," ","f">>, Link(<<"f">>, "s4")),
      H3(<<"T">>, "u1"), H3NoLink(<<"V">>), Div(AuthorsLine) }

IdPool ==
    { H3(<<"A">>, "u1"), H3(<<"A","B">>, "u2"),
      Div(<<"B">>), Div(<<"A","B">>), Div(<<"A",",","B">>) }

SeqsUpTo(S, n) == UNION {[1..k -> S] : k \in 0..n}

WalkBodies == {<<H3(<<"T">>, "u1")>> \o s : s \in SeqsUpTo(WalkPool, MaxSiblings)}
CatBodies == SeqsUpTo(CatPool, MaxParas)
IdBodies == SeqsUpTo(IdPool, MaxIdNodes)

Bodies == WalkBodies \cup CatBodies \cup IdBodies

-----------------------------------------------------------------------------
(* parse_scholar_email, step by step.                                      *)

\* The locals of parse_scholar_email before its first statement.
ParseIdle ==
    /\ category = DefaultCategory
    /\ found_category = FALSE
    /\ hidx = 0
    /\ curr = 0
    /\ title = <<>>
    /\ url = ""
    /\ authors_text = <<>>
    /\ abstract_text = <<>>
    /\ papers = <<>>

EnhanceIdle ==
    /\ api_key = FALSE
    /\ batch = <<>>
    /\ enhanced_papers = <<>>
    /\ resps = <<>>

NoFile == [exists |-> FALSE, data |-> <<>>]

FetchIdle ==
    /\ env = [creds |-> FALSE, available |-> FALSE]
    /\ inbox = <<>>
    /\ num = 0
    /\ all_papers = <<>>
    /\ sink = NoFile
    /\ sink0 = NoFile
    /\ result = "running"

Init ==
    /\ html \in Bodies
    /\ pc = "category"
    /\ ParseIdle
    /\ EnhanceIdle
    /\ FetchIdle

\* fetch_emails.py:42-63
ResolveCategory ==
    /\ pc = "category"
    /\ category' = ScanParagraphs(html, 1).category
    /\ found_category' = ScanParagraphs(html, 1).found_category
    /\ pc' = "headings"
    /\ UNCHANGED <<html, hidx, curr, title, url, authors_text, abstract_text, papers>>
    /\ UNCHANGED <<enhVars, fetchVars>>

\* fetch_emails.py:68-71: an h3 without a link is passed over
SkipHeading ==
    /\ pc = "headings"
    /\ NextH3(html, hidx) # 0
    /\ ~html[NextH3(html, hidx)].a.has
    /\ hidx' = NextH3(html, hidx)
    /\ UNCHANGED <<pc, html, category, found_category, curr, title, url,
                   authors_text, abstract_text, papers>>
    /\ UNCHANGED <<enhVars, fetchVars>>

\* fetch_emails.py:68-94: an h3 with a link starts a sibling walk
EnterHeading ==
    /\ pc = "headings"
    /\ NextH3(html, hidx) # 0
    /\ html[NextH3(html, hidx)].a.has
    /\ hidx' = NextH3(html, hidx)
    /\ title' = clean_text(html[hidx'].a.text)
    /\ url' = html[hidx'].a.href
    /\ authors_text' = <<>>
    /\ abstract_text' = <<>>
    /\ curr' = next_sibling(html, hidx')
    /\ pc' = IF curr' = 0 THEN "assemble" ELSE "walk"
    /\ UNCHANGED <<html, category, found_category, papers>>
    /\ UNCHANGED <<enhVars, fetchVars>>

\* fetch_emails.py:95-114: one iteration of `while curr`
WalkStep ==
    /\ pc = "walk"
    /\ LET w == SiblingStep([authors_text |-> authors_text,
                             abstract_text |-> abstract_text,
                             stop |-> FALSE], html[curr])
       IN  /\ authors_text' = w.authors_text
           /\ abstract_text' = w.abstract_text
           /\ curr' = IF w.stop THEN curr ELSE next_sibling(html, curr)
           /\ pc' = IF w.stop \/ next_sibling(html, curr) = 0
                    THEN "assemble" ELSE "walk"
    /\ UNCHANGED <<html, category, found_category, hidx, title, url, papers>>
    /\ UNCHANGED <<enhVars, fetchVars>>

\* fetch_emails.py:116-148
Assemble ==
    /\ pc = "assemble"
    /\ papers' = Append(papers, MakePaper(title, url, authors_text,
                                          abstract_text, category))
    /\ pc' = "headings"
    /\ UNCHANGED <<html, category, found_category, hidx, curr, title, url,
                   authors_text, abstract_text>>
    /\ UNCHANGED <<enhVars, fetchVars>>

\* fetch_emails.py:150
ReturnPapers ==
    /\ pc = "headings"
    /\ NextH3(html, hidx) = 0
    /\ pc' = "done"
    /\ UNCHANGED <<html, category, found_category, hidx, curr, title, url,
                   authors_text, abstract_text, papers>>
    /\ UNCHANGED <<enhVars, fetchVars>>

Next ==
    \/ ResolveCategory
    \/ SkipHeading
    \/ EnterHeading
    \/ WalkStep
    \/ Assemble
    \/ ReturnPapers

Spec == Init /\ [][Next]_vars

\* The step-by-step run returns what the function form computes.
StepwiseAgrees == pc = "done" => papers = parse_scholar_email(html)

-----------------------------------------------------------------------------
(* Properties of parse_scholar_email (under Spec).                         *)

Min(S) == CHOOSE x \in S : \A y \in S : x <= y

LastPaper == papers[Len(papers)]

\* Locals and last record are those of the heading assembled last.
JustAssembled == pc \in {"headings", "done"} /\ papers # <<>>

\* "Title: <title>\nAuthors: <authors joined by ', '>\nAbstract: <abs>"
ThreeLineBlock(r, abs) ==
    TitleLabel \o r.title \o AuthorsLabel \o join(r.authors, CommaSpace)
        \o AbstractLabel \o abs

\* C2 as stated: with the abstract absent the final summary is the bare
\* "Abstract not available" literal; a present abstract shorter than 50
\* characters gives the three-line block; otherwise the abstract verbatim.
C2_Original ==
    JustAssembled =>
        /\ abstract_text = <<>> =>
               LastPaper.summary \in
                   {AbstractNotAvailable, SubSeq(AbstractNotAvailable, 1, 22)}
        /\ (abstract_text # <<>> /\ Len(abstract_text) < SummaryThreshold) =>
               LastPaper.summary = ThreeLineBlock(LastPaper, abstract_text)
        /\ Len(abstract_text) >= SummaryThreshold =>
               LastPaper.summary = abstract_text

\* C2 amended: with the abstract absent the final summary is the three-line
\* block whose Abstract line is "Abstract not available."; a present
\* abstract shorter than 50 characters gives the three-line block with the
\* abstract; an abstract of 50 characters or more is the summary verbatim.
C2_SummaryComposer ==
    JustAssembled =>
        /\ abstract_text = <<>> =>
               LastPaper.summary = ThreeLineBlock(LastPaper, AbstractNotAvailable)
        /\ (abstract_text # <<>> /\ Len(abstract_text) < SummaryThreshold) =>
               LastPaper.summary = ThreeLineBlock(LastPaper, abstract_text)
        /\ Len(abstract_text) >= SummaryThreshold =>
               LastPaper.summary = abstract_text

\* A record assembled without an abstract, two authors parsed.
C2_Witness ==
    /\ JustAssembled
    /\ abstract_text = <<>>
    /\ Len(LastPaper.authors) = 2
    /\ Len(LastPaper.summary) > Len(AbstractNotAvailable)

\* The walk is at a div and the authors/venue candidate exists.
AtLaterDiv == pc = "walk" /\ html[curr].name = "div" /\ authors_text # <<>>

\* C3 as stated: once an authors/venue candidate exists, a div whose
\* normalized text has exactly 20 characters becomes the abstract candidate
\* and the walk stops.
C3_Original ==
    [][(AtLaterDiv /\ Len(clean_text(html[curr].text)) = MinAbstractLen) =>
           /\ abstract_text' = clean_text(html[curr].text)
           /\ pc' = "assemble"
           /\ curr' = curr]_vars

\* C3 amended: once an authors/venue candidate exists, a div whose
\* normalized text has exactly 20 characters (or fewer) is discarded and
\* the walk moves on to the next sibling; only text strictly longer than 20
\* characters becomes the abstract candidate and stops the walk.
C3_ThresholdStrict ==
    [][AtLaterDiv =>
           /\ Len(clean_text(html[curr].text)) > MinAbstractLen =>
                  /\ abstract_text' = clean_text(html[curr].text)
                  /\ pc' = "assemble"
                  /\ curr' = curr
           /\ Len(clean_text(html[curr].text)) <= MinAbstractLen =>
                  /\ abstract_text' = <<>>
                  /\ authors_text' = authors_text
                  /\ curr' = next_sibling(html, curr)]_vars

\* The walk has just passed over a 20-character div with authors present.
C3_Witness ==
    /\ pc = "walk"
    /\ curr > hidx + 2
    /\ html[curr - 1].name = "div"
    /\ Len(clean_text(html[curr - 1].text)) = MinAbstractLen
    /\ authors_text # <<>>
    /\ authors_text # clean_text(html[curr - 1].text)
    /\ abstract_text = <<>>

\* Paragraphs whose text contains the marker phrase.
MarkerParas(doc) ==
    {i \in 1..Len(doc) : doc[i].name = "p" /\ Contains(doc[i].text, target_text)}

\* Marker paragraphs whose first link has non-empty bracket-stripped text.
UsableParas(doc) ==
    {i \in MarkerParas(doc) : doc[i].a.has /\ LinkCategory(doc[i].a.text) # <<>>}

\* C4 as stated: the first paragraph containing the marker alone decides
\* the category; without a link or with empty link text the category stays
\* the default, and no later marker paragraph sets it.
C4_Original ==
    pc # "category" =>
        category = IF MarkerParas(html) # {} /\ Min(MarkerParas(html)) \in UsableParas(html)
                   THEN LinkCategory(html[Min(MarkerParas(html))].a.text)
                   ELSE DefaultCategory

\* C4 amended: scanning stops at the first marker paragraph that has a
\* hyperlink with non-empty (bracket-stripped) text, and that paragraph
\* sets the category; a marker paragraph without a link or with empty link
\* text is passed over, so a later marker paragraph can set the category;
\* when no marker paragraph qualifies the category stays "Google Scholar".
C4_FirstUsableWins ==
    pc # "category" =>
        /\ category = IF UsableParas(html) # {}
                      THEN LinkCategory(html[Min(UsableParas(html))].a.text)
                      ELSE DefaultCategory
        /\ found_category = (UsableParas(html) # {})

\* A later marker paragraph set the category after an unusable first one.
C4_Witness ==
    /\ pc # "category"
    /\ UsableParas(html) # {}
    /\ Min(MarkerParas(html)) \notin UsableParas(html)
    /\ category = <<"c"," ","d">>

\* title followed by the authors joined without separators
IdString(r) == r.title \o join(r.authors, <<>>)

\* C9 as stated: two records whose (title, author sequence) pairs differ
\* never receive the same id.
C9_Original ==
    \A i, j \in 1..Len(papers) :
        (<<papers[i].title, papers[i].authors>> # <<papers[j].title, papers[j].authors>>)
            => papers[i].id # papers[j].id

\* C9 amended: the id is a function of (title, author sequence) alone, and
\* two records receive the same id exactly when title followed by the
\* authors joined without separators is the same string for both; pairs
\* that differ but concatenate to the same string share an id.
C9_IdOfConcatenation ==
    \A i, j \in 1..Len(papers) :
        (papers[i].id = papers[j].id) <=> (IdString(papers[i]) = IdString(papers[j]))

\* Two records with different (title, authors) and one id.
C9_Witness ==
    \E i, j \in 1..Len(papers) :
        /\ papers[i].title # papers[j].title
        /\ papers[i].authors # papers[j].authors
        /\ papers[i].id = papers[j].id

\* The walk state: 0 nothing found, 1 authors found, 2 abstract found.
Phase ==
    IF abstract_text # <<>> THEN 2 ELSE IF authors_text # <<>> THEN 1 ELSE 0

\* Siblings of the current heading that are an h3 or an hr.
Boundaries == {j \in (hidx + 1)..Len(html) : html[j].name \in {"h3", "hr"}}

\* Siblings before the first boundary that are a div or a text node with
\* non-empty normalized text.
AuthorCandidates ==
    {j \in (hidx + 1)..Len(html) :
        /\ \A b \in Boundaries : j < b
        /\ html[j].name \in {"div", "None"}
        /\ clean_text(html[j].text) # <<>>}

C10_State ==
    /\ pc = "walk" => abstract_text = <<>>
    /\ (pc \in {"walk", "assemble"} /\ curr # 0) => \A b \in Boundaries : curr <= b
    /\ (pc = "assemble" /\ curr = 0) => Boundaries = {}
    /\ pc = "assemble" =>
           authors_text = IF AuthorCandidates = {} THEN <<>>
                          ELSE clean_text(html[Min(AuthorCandidates)].text)

C10_Step ==
    /\ pc = "walk" => Phase' >= Phase
    /\ (pc = "walk" /\ html[curr].name \in {"h3", "hr"}) =>
           /\ pc' = "assemble"
           /\ curr' = curr
           /\ authors_text' = authors_text
           /\ abstract_text' = abstract_text
    /\ (pc = "walk" /\ abstract_text' # <<>>) => (pc' = "assemble" /\ curr' = curr)

\* C10: the sibling walk stops at the first h3 or hr sibling without
\* consuming it and stops as soon as the abstract candidate is set; no node
\* at or after that first h3/hr contributes to authors or abstract; the walk
\* state only moves forward (nothing -> authors -> abstract); and the first
\* non-empty div or text node fills the authors slot whatever its length.
C10_SiblingWalk == []C10_State /\ [][C10_Step]_vars

\* A walk stopped at an hr with an abstract-length div in the authors slot
\* and a further div behind the hr.
C10_Witness ==
    /\ pc = "assemble"
    /\ curr # 0
    /\ html[curr].name = "hr"
    /\ curr < Len(html)
    /\ html[curr + 1].name = "div"
    /\ Len(authors_text) > MinAbstractLen
    /\ abstract_text = <<>>

-----------------------------------------------------------------------------
(* scholar_api.py: enhance_paper_with_scholar and enhance_papers_batch.    *)

MaxBatch == 2

\* "Abstract not available", the placeholder tested at scholar_api.py:70
Placeholder == SubSeq(AbstractNotAvailable, 1, 22)
CommentSep == <<" ","|"," ">>

\* paper_data[key] = value on a dict
SetItem(d, key, value) ==
    [k \in DOMAIN d \cup {key} |-> IF k = key THEN value ELSE d[k]]

\* What a lookup can come to.  kind is where the call leaves the happy path:
\*   "search_raises"  GoogleSearch(...).get_dict() raises (scholar_api.py:41-42)
\*   "error"          the result holds "error"           (scholar_api.py:44)
\*   "no_results"     no or empty organic_results        (scholar_api.py:48)
\*   "malformed"      the top result is not of the expected shape and
\*                    reading it raises                  (scholar_api.py:53-70)
\*   "ok"             a top result with snippet, publication_info.summary
\*                    and link, each "" when missing     (scholar_api.py:60-63)
FailureKinds == {"search_raises", "error", "no_results", "malformed"}

Failure(k) == [kind |-> k, snippet |-> <<>>, pub_info |-> <<>>, link |-> <<>>]
Found(s, pi, l) == [kind |-> "ok", snippet |-> s, pub_info |-> pi, link |-> l]

\* The updates of a record from the top result, scholar_api.py:65-87
ApplyTopResult(paper_data, resp) ==
    LET current_summary == paper_data.summary
        new_snippet == resp.snippet
        p1 == IF \/ Contains(current_summary, Placeholder)
                 \/ Len(current_summary) < Len(new_snippet)
              THEN [paper_data EXCEPT !.summary = new_snippet]
              ELSE paper_data
        p2 == IF resp.pub_info # <<>>
              THEN IF p1.comment # <<>>
                   THEN [p1 EXCEPT !.comment = p1.comment \o CommentSep \o resp.pub_info]
                   ELSE [p1 EXCEPT !.comment = resp.pub_info]
              ELSE p1
        p3 == IF resp.link # <<>> THEN SetItem(p2, "url", resp.link) ELSE p2
    IN  SetItem(p3, "scholar_enhanced", TRUE)

\* The function with the summary assigned before the top result is read
\* through, so that a malformed result leaves the record half updated.
enhance_paper_partial(paper_data, key, resp) ==
    IF ~key THEN paper_data
    ELSE IF paper_data.title = <<>> THEN paper_data
    ELSE IF resp.kind \in {"search_raises", "error", "no_results"} THEN paper_data
    ELSE IF resp.kind = "malformed" THEN [paper_data EXCEPT !.summary = resp.snippet]
    ELSE ApplyTopResult(paper_data, resp)

\* enhance_paper_with_scholar(paper_data), scholar_api.py:11-93, with the
\* environment's key and the lookup's outcome as arguments.  Every place
\* the try body can raise lies before its first assignment to paper_data,
\* so the except clause returns the record as it came.
enhance_paper_with_scholar(paper_data, key, resp) ==
    IF ~key THEN paper_data
    ELSE IF paper_data.title = <<>> THEN paper_data
    ELSE IF resp.kind \in FailureKinds THEN paper_data
    ELSE ApplyTopResult(paper_data, resp)

\* enhance_papers_batch(papers), scholar_api.py:95-106, record i meeting
\* the lookup outcome rs[i]
enhance_papers_batch(ps, key, rs) ==
    [i \in 1..Len(ps) |-> enhance_paper_with_scholar(ps[i], key, rs[i])]

\* Records the extractor produces, for the batch to be run on: one without
\* an abstract, one with a short abstract, one with a 50-character abstract,
\* one whose title is empty.
EnhBodies ==
    { <<H3(<<"T","1">>, "u1"), Div(AuthorsLine)>>,
      <<H3(<<"T","2">>, "u2"), Div(AuthorsLine), Div(Rep("x", MinAbstractLen + 1))>>,
      <<H3(<<"T","3">>, "u3"), Div(AuthorsLine), Div(Rep("y", SummaryThreshold))>>,
      <<H3(<<" ">>, "u4"), Div(AuthorsLine)>> }

RecordPool == {parse_scholar_email(b)[1] : b \in EnhBodies}

RespPool ==
    {Failure(k) : k \in FailureKinds} \cup
    { Found(<<>>, <<>>, <<>>),
      Found(Rep("s", 3), <<"V">>, <<>>),
      Found(Rep("s", 80), <<>>, <<"L">>),
      Found(Rep("s", 80), <<"V">>, <<"L">>),
      Found(<<>>, <<"V">>, <<"L">>) }

InitEnhance ==
    /\ pc = "batch"
    /\ api_key \in BOOLEAN
    /\ batch \in SeqsUpTo(RecordPool, MaxBatch)
    /\ enhanced_papers = <<>>
    /\ resps = <<>>
    /\ html = <<>>
    /\ ParseIdle
    /\ FetchIdle

\* One iteration of the loop of enhance_papers_batch, scholar_api.py:100-104
EnhanceOne ==
    /\ pc = "batch"
    /\ Len(enhanced_papers) < Len(batch)
    /\ \E resp \in RespPool :
           /\ enhanced_papers' =
                  Append(enhanced_papers,
                         enhance_paper_with_scholar(batch[Len(enhanced_papers) + 1],
                                                    api_key, resp))
           /\ resps' = Append(resps, resp)
    /\ UNCHANGED <<pc, api_key, batch, parseVars, fetchVars>>

\* scholar_api.py:106
ReturnBatch ==
    /\ pc = "batch"
    /\ Len(enhanced_papers) = Len(batch)
    /\ pc' = "batch_done"
    /\ UNCHANGED <<enhVars, parseVars, fetchVars>>

NextEnhance == EnhanceOne \/ ReturnBatch

SpecEnhance == InitEnhance /\ [][NextEnhance]_vars

-----------------------------------------------------------------------------
(* Properties of the enrichment (under SpecEnhance).                       *)

PaperFields ==
    {"id", "title", "authors", "summary", "categories", "pdf", "abs",
     "comment", "source"}

\* Record i was looked up and the lookup gave a top result.
Enriched(i) == api_key /\ batch[i].title # <<>> /\ resps[i].kind = "ok"

\* C5: enrichment changes nothing except summary (only when the snippet is
\* longer or the summary is the placeholder), comment (only by appending
\* publication info) and the URL fields pdf and abs (replaced by the
\* resolved link); id, title, authors, categories and source are unchanged,
\* no field outside the Paper Record table is added, and pdf and abs still
\* carry the same URL.
C5_EnrichmentFrame ==
    \A i \in 1..Len(enhanced_papers) :
        LET b == batch[i]
            e == enhanced_papers[i]
        IN  /\ DOMAIN e = PaperFields
            /\ e.id = b.id /\ e.title = b.title /\ e.authors = b.authors
            /\ e.categories = b.categories /\ e.source = b.source
            /\ e.pdf = e.abs
            /\ (Enriched(i) /\ resps[i].link # <<>>) => e.pdf = resps[i].link
            /\ ~(Enriched(i) /\ resps[i].link # <<>>) => e.pdf = b.pdf
            /\ e.summary # b.summary =>
                   /\ e.summary = resps[i].snippet
                   /\ \/ Len(b.summary) < Len(resps[i].snippet)
                      \/ Contains(b.summary, Placeholder)
            /\ e.comment # b.comment =>
                   e.comment = b.comment \o CommentSep \o resps[i].pub_info

\* The lookup of record i did not produce a result.
LookupFailed(i) == ~api_key \/ resps[i].kind \in FailureKinds

\* C6: enhance_papers_batch returns a sequence of the same length in the
\* same order, and a record whose lookup has no credential, returns an
\* error, returns no result or raises comes out with every field as it was.
C6_BatchPreserves ==
    /\ Len(enhanced_papers) = Len(resps)
    /\ Len(enhanced_papers) <= Len(batch)
    /\ pc = "batch_done" => Len(enhanced_papers) = Len(batch)
    /\ \A i \in 1..Len(enhanced_papers) :
           /\ enhanced_papers[i].id = batch[i].id
           /\ enhanced_papers[i].title = batch[i].title
           /\ LookupFailed(i) => enhanced_papers[i] = batch[i]

\* A finished batch of two different records: the first met a lookup that
\* raised while reading the result, the second was enriched.
C6_Witness ==
    /\ pc = "batch_done"
    /\ Len(batch) = 2
    /\ api_key
    /\ batch[1].id # batch[2].id
    /\ batch[1].title # <<>>
    /\ resps[1].kind = "malformed"
    /\ resps[2].kind = "ok"
    /\ enhanced_papers[2] # batch[2]

-----------------------------------------------------------------------------
(* fetch_emails.py: fetch_emails.                                          *)

MaxMsgs == 2

\* The file at save_path is a sequence of items: raw characters that were
\* there before, and the lines fetch_emails writes.
Raw(c) == [kind |-> "raw", v |-> c]
JsonLine(paper) == [kind |-> "json", v |-> paper]
Newline == Raw("\n")
File(d) == [exists |-> TRUE, data |-> d]

\* What mail.fetch and the handling of its answer come to for one message:
\*   "fetch_raises"  mail.fetch raises                 (fetch_emails.py:226)
\*   "fetch_not_ok"  typ != "OK" or no data            (fetch_emails.py:227)
\*   "malformed"     reading the message raises        (fetch_emails.py:229-244)
\*   "no_html"       the message has no text/html part (fetch_emails.py:246)
\*   "html"          body is the parsed text/html part
Msg(k, b) == [kind |-> k, body |-> b]

FetchBodies ==
    { <<P(target_text \o <<" ","[","c"," ","d","]">>, Link(<<"[","c"," ","d","]">>, "s1")),
        H3(<<"A">>, "u1"), Div(<<"B">>), H3NoLink(<<"V">>), H3(<<"A","B">>, "u2")>>,
      <<H3(<<"T">>, "u3"), Div(AuthorsLine), Div(Rep("y", SummaryThreshold))>>,
      <<H3NoLink(<<"V">>), Div(AuthorsLine)>> }

MsgPool ==
    {Msg(k, <<>>) : k \in {"fetch_raises", "fetch_not_ok", "malformed", "no_html"}}
        \cup {Msg("html", b) : b \in FetchBodies}

FetchRespPool ==
    { Failure("error"), Found(<<>>, <<>>, <<>>), Found(Rep("s", 80), <<"V">>, <<"L">>) }

\* One iteration of the message loop where a message that fails empties
\* what was accumulated.
AccumulatePapersReset(acc, m) ==
    IF m.kind = "html" THEN acc \o parse_scholar_email(m.body) ELSE <<>>

\* One iteration of the message loop, fetch_emails.py:224-254: all_papers
\* after message m.  The inner except and the two `continue` leave it as is.
AccumulatePapers(acc, m) ==
    IF m.kind = "html" THEN acc \o parse_scholar_email(m.body) ELSE acc

\* The lines written for the batch, fetch_emails.py:289-290
RECURSIVE Lines(_)
Lines(ps) ==
    IF ps = <<>> THEN <<>>
    ELSE <<JsonLine(Head(ps)), Newline>> \o Lines(Tail(ps))

\* start_newline, fetch_emails.py:275-284 (the seek fails on an empty file)
StartNewline(f) ==
    /\ f.exists
    /\ f.data # <<>>
    /\ ~(f.data[Len(f.data)].kind = "raw" /\ f.data[Len(f.data)].v = "\n")

InitFetch ==
    /\ pc = "start"
    /\ env \in [creds : BOOLEAN, available : BOOLEAN]
    /\ api_key \in BOOLEAN
    /\ inbox \in SeqsUpTo(MsgPool, MaxMsgs)
    /\ sink0 \in {NoFile, File(<<>>), File(<<Raw("x"), Newline>>), File(<<Raw("x")>>)}
    /\ sink = sink0
    /\ num = 0
    /\ all_papers = <<>>
    /\ result = "running"
    /\ batch = <<>>
    /\ enhanced_papers = <<>>
    /\ resps = <<>>
    /\ html = <<>>
    /\ ParseIdle

\* fetch_emails.py:186-222: the credentials test, connect, login, select and
\* search.  Whatever raises is caught at fetch_emails.py:294.
Connect ==
    /\ pc = "start"
    /\ \E o \in {"connect_raises", "search_raises", "search_not_ok",
                 "search_not_ok_close_raises", "ok", "ok_close_raises"} :
           IF ~env.creds
           THEN pc' = "fdone" /\ result' = "skipped" /\ UNCHANGED num
           ELSE IF o \in {"connect_raises", "search_raises", "search_not_ok_close_raises"}
           THEN pc' = "fdone" /\ result' = "error" /\ UNCHANGED num
           ELSE IF o = "search_not_ok"
           THEN pc' = "fdone" /\ result' = "search_failed" /\ UNCHANGED num
           ELSE IF inbox = <<>>
           THEN /\ pc' = "fdone"
                /\ result' = IF o = "ok" THEN "no_emails" ELSE "error"
                /\ UNCHANGED num
           ELSE pc' = "loop" /\ num' = 1 /\ UNCHANGED result
    /\ UNCHANGED <<env, inbox, all_papers, sink, sink0, parseVars, enhVars>>

\* fetch_emails.py:224-254: one message
FetchMessage ==
    /\ pc = "loop"
    /\ all_papers' = AccumulatePapers(all_papers, inbox[num])
    /\ num' = num + 1
    /\ pc' = IF num = Len(inbox) THEN "close" ELSE "loop"
    /\ UNCHANGED <<env, inbox, sink, sink0, result, parseVars, enhVars>>

\* fetch_emails.py:256-263
CloseMail ==
    /\ pc = "close"
    /\ \E ok \in BOOLEAN :
           IF ~ok THEN pc' = "fdone" /\ result' = "error"
           ELSE IF all_papers = <<>> THEN pc' = "fdone" /\ result' = "no_papers"
           ELSE pc' = "enhance" /\ UNCHANGED result
    /\ UNCHANGED <<env, inbox, num, all_papers, sink, sink0, parseVars, enhVars>>

\* fetch_emails.py:266-268
Enhance ==
    /\ pc = "enhance"
    /\ IF env.available /\ api_key
       THEN \E rs \in [1..Len(all_papers) -> FetchRespPool] :
                /\ all_papers' = enhance_papers_batch(all_papers, api_key, rs)
                /\ resps' = rs
       ELSE UNCHANGED <<all_papers, resps>>
    /\ pc' = "write"
    /\ UNCHANGED <<env, inbox, num, sink, sink0, result, parseVars,
                   api_key, batch, enhanced_papers>>

\* fetch_emails.py:275-292; an open that raises is caught at line 294
WriteSink ==
    /\ pc = "write"
    /\ \E ok \in BOOLEAN :
           IF ok
           THEN /\ sink' = File(sink.data
                                \o (IF StartNewline(sink) THEN <<Newline>> ELSE <<>>)
                                \o Lines(all_papers))
                /\ result' = "saved"
           ELSE UNCHANGED sink /\ result' = "error"
    /\ pc' = "fdone"
    /\ UNCHANGED <<env, inbox, num, all_papers, sink0, parseVars, enhVars>>

NextFetch == Connect \/ FetchMessage \/ CloseMail \/ Enhance \/ WriteSink

SpecFetch == InitFetch /\ [][NextFetch]_vars

-----------------------------------------------------------------------------
(* Properties of fetch_emails (under SpecFetch).                           *)

\* C1: the summary of a Paper Record is never the empty string, neither as
\* parse_scholar_email returns it nor after enhance_paper_with_scholar, for
\* any search result, nor as written to the sink.
C1_SummaryNeverEmpty ==
    /\ \A i \in 1..Len(all_papers) : all_papers[i].summary # <<>>
    /\ \A k \in 1..Len(sink.data) :
           sink.data[k].kind = "json" => sink.data[k].v.summary # <<>>

RECURSIVE SortedSeq(_)
SortedSeq(S) == IF S = {} THEN <<>> ELSE <<Min(S)>> \o SortedSeq(S \ {Min(S)})

\* The h3 nodes of a document that contain a hyperlink, in document order.
LinkedHeadings(doc) ==
    SortedSeq({i \in 1..Len(doc) : doc[i].name = "h3" /\ doc[i].a.has})

\* The linked headings of the first n messages as <<message, node>> pairs,
\* in message order and then document order.
RECURSIVE HeadingsUpTo(_)
HeadingsUpTo(n) ==
    IF n = 0 THEN <<>>
    ELSE HeadingsUpTo(n - 1) \o
         (IF inbox[n].kind = "html"
          THEN [k \in 1..Len(LinkedHeadings(inbox[n].body)) |->
                   <<n, LinkedHeadings(inbox[n].body)[k]>>]
          ELSE <<>>)

\* C7: the records accumulated by a run are one record per heading that
\* contains a hyperlink, in document order within a body and input order
\* across bodies; a heading without a hyperlink gives no record and does
\* not stop the extraction; each record carries its body's category as its
\* single categories entry.
C7_OneRecordPerLinkedHeading ==
    pc \in {"loop", "close"} =>
        LET hs == HeadingsUpTo(num - 1)
        IN  /\ Len(all_papers) = Len(hs)
            /\ \A k \in 1..Len(hs) :
                   LET doc == inbox[hs[k][1]].body
                       h == doc[hs[k][2]]
                   IN  /\ all_papers[k].title = clean_text(h.a.text)
                       /\ all_papers[k].pdf = h.a.href
                       /\ all_papers[k].abs = h.a.href
                       /\ all_papers[k].categories = <<ScanParagraphs(doc, 1).category>>

\* Both bodies with linked headings were read: the heading behind the one
\* without a link gave the second record, the second body the third.
C7_Witness ==
    /\ pc = "close"
    /\ Len(all_papers) = 3
    /\ all_papers[1].categories = <<<<"c"," ","d">>>>
    /\ all_papers[2].title = <<"A","B">>
    /\ all_papers[3].title = <<"T">>
    /\ all_papers[3].categories = <<DefaultCategory>>

\* The records of the messages among the first n that were fetched and read
RECURSIVE ParsedUpTo(_)
ParsedUpTo(n) ==
    IF n = 0 THEN <<>>
    ELSE ParsedUpTo(n - 1) \o
         (IF inbox[n].kind = "html" THEN parse_scholar_email(inbox[n].body) ELSE <<>>)

Ids(ps) == [i \in 1..Len(ps) |-> ps[i].id]

\* C8: a failure while fetching or parsing one message contributes no
\* records from that message only, the loop goes on and the other records
\* are written in message order; no failure of connect, login, select,
\* search or fetch leaves fetch_emails as an exception, and nothing is
\* written to the sink before the whole batch is assembled.
C8_FailuresContained ==
    /\ pc \in {"loop", "close"} =>
           all_papers = ParsedUpTo(num - 1) /\ result = "running"
    /\ pc \in {"close", "enhance", "write"} => num = Len(inbox) + 1
    /\ pc = "fdone" =>
           result \in {"skipped", "error", "search_failed", "no_emails",
                       "no_papers", "saved"}
    /\ ~(pc = "fdone" /\ result = "saved") => sink = sink0
    /\ (pc = "fdone" /\ result = "saved") =>
           /\ Ids(all_papers) = Ids(ParsedUpTo(Len(inbox)))
           /\ sink = File(sink0.data
                          \o (IF StartNewline(sink0) THEN <<Newline>> ELSE <<>>)
                          \o Lines(all_papers))

\* A run whose first message failed to fetch saved the second one's records.
C8_Witness ==
    /\ pc = "fdone"
    /\ result = "saved"
    /\ Len(inbox) = 2
    /\ inbox[1].kind = "fetch_raises"
    /\ Len(all_papers) = 2
    /\ sink # sink0

====
